---- MODULE Spec2Model ----
(***************************************************************************)
(* A model of the EIP-7966 benchmark: the instrumented transport, the two  *)
(* submission flows (runAsyncTransaction, runSyncTransaction) and the      *)
(* orchestrator (runBenchmark of TransactionBenchmark).                    *)
(*                                                                         *)
(* Spec        the orchestrator with a Preparing state (src/unnamed/       *)
(*             part_001) driving the flows of src/lib/benchmark-runner.ts  *)
(* SpecLegacy  the orchestrator without a Preparing state (src/unnamed/    *)
(*             part_002) driving the same flows                            *)
(* SpecClients the client pairs built by createBenchmarkClients, with the  *)
(*             orchestrator's loggers, under arbitrary requests            *)
(* SpecCompare the ComparisonCard component rendered with any two completed *)
(*             results                                                     *)
(* SpecGas     the gas parameters computed from the answers of the gas     *)
(*             prefetch                                                    *)
(***************************************************************************)
EXTENDS Integers, Sequences, FiniteSets, TLC

\* ------------------------------------------------------------------ bounds
\* Date.now() is read from a clock that advances at most MaxTime times.
MaxTime == 1
\* waitForTransactionReceipt sees at most MaxPolls empty answers before a
\* receipt or a failure.
MaxPolls == 0
\* SpecClients: calls in flight at once, and calls issued in all.
MaxInflight == 2
MaxRequests == 2
\* SpecCompare: the durations of the results handed to the comparison card.
MaxDuration == 4
\* SpecGas: the base fee and the priority fee the network answers.
MaxFee == 7

\* ------------------------------------------------------------------ values
F == {"async", "sync"}
Other(f) == IF f = "async" THEN "sync" ELSE "async"
Clients == {"wallet", "public"}
Null == [null |-> TRUE]
\* The hash of the transaction each flow submits.
TxHash(f) == IF f = "async" THEN "0xa" ELSE "0xb"
Hashes == {TxHash(f) : f \in F}
\* What a rejected request carries: the client library rejects with an Error.
RpcErrors == {[isError |-> TRUE, message |-> "rpc rejected"]}
\* What a rejected signing carries: an Error, or any other thrown value.
SignErrors == {[isError |-> TRUE, message |-> "signing failed"],
               [isError |-> FALSE, message |-> ""]}
NoBaseFee == -1
BaseFees == {NoBaseFee, 0, 1}
PriorityFees == {1}
GasEstimates == {21000}
\* The transaction count of an identity generated for this run.
NonceVals == {0}
AllOptions == [nonce : BOOLEAN, gasParams : BOOLEAN, chainId : BOOLEAN]
Methods == {"eth_chainId", "eth_estimateGas", "eth_sendRawTransaction",
            "eth_getTransactionReceipt", "eth_sendRawTransactionSync",
            "eth_getTransactionCount"}
EmptyParams == [x \in {} |-> 0]

VARIABLES
    variant,          \* which TransactionBenchmark component is mounted
    now,              \* Date.now()
    isRunning,        \* useState isRunning
    isPreparing,      \* useState isPreparing
    result,           \* asyncResult / syncResult
    partial,          \* asyncPartial / syncPartial
    elapsed,          \* asyncElapsed / syncElapsed
    timer,            \* asyncTimerRef / syncTimerRef hold a live interval
    opc,              \* where runBenchmark stands
    opts,             \* the prefetchOptions the running closure captured
    rpcCalls,         \* asyncRPCCalls / syncRPCCalls of the current run
    prefetchedGas,    \* prefetchedGas of the current run
    nonce,            \* asyncNonce / syncNonce
    setup,            \* setup calls awaited by runBenchmark, and their answers
    startT,           \* asyncStartTime / syncStartTime
    pc,               \* where each flow stands
    step,             \* requests of the current client action already answered
    inflight,         \* requests forwarded to the network, not yet settled
    hash,             \* the flow's local `hash`
    fstart,           \* the flow's local startTime
    acts,             \* client actions each flow has invoked, in order
    wire,             \* requests that reached the underlying transport
    returned,         \* what the interceptors handed back to their callers
    runsInFlight,     \* invocations of runBenchmark that have not ended
    comparison        \* what ComparisonCard rendered from the two results

vars == <<variant, now, isRunning, isPreparing, result, partial,
          elapsed, timer, opc, opts, rpcCalls, prefetchedGas, nonce, setup,
          startT, pc, step, inflight, hash, fstart, acts, wire, returned,
          runsInFlight, comparison>>

uiVars == <<isRunning, isPreparing, result, elapsed, timer>>
runVars == <<variant, opc, opts, prefetchedGas, nonce, setup, startT, runsInFlight>>
flowVars == <<pc, step, hash, fstart, acts>>

\* ------------------------------------------------------- call-log observers
\* asyncRPCCalls.findIndex(call => call.method === log.method &&
\*   call.isPending && call.startTime === log.startTime); 0 stands for -1.
FindPendingByMethod(calls, log) ==
    LET hits == {i \in 1..Len(calls) :
                    calls[i].method = log.method /\ calls[i].isPending}
    IN IF hits = {} THEN 0 ELSE CHOOSE i \in hits : \A j \in hits : i <= j

FindPending(calls, log) ==
    LET hits == {i \in 1..Len(calls) :
                    /\ calls[i].method = log.method
                    /\ calls[i].isPending
                    /\ calls[i].startTime = log.startTime}
    IN IF hits = {} THEN 0 ELSE CHOOSE i \in hits : \A j \in hits : i <= j

\* { ...log, isPending: false }
CompletedDropsTimes(log) ==
    [method |-> log.method, startTime |-> log.startTime,
     endTime |-> 0, duration |-> 0, isPending |-> FALSE]

Completed(log) ==
    [method |-> log.method, startTime |-> log.startTime,
     endTime |-> log.endTime, duration |-> log.duration, isPending |-> FALSE]

\* The completion observer the orchestrator hands to createBenchmarkClients:
\* update the pending entry in place, or push when none is found.
CompletionLoggerKeepsPending(calls, log) ==
    LET pendingIndex == FindPending(calls, log)
    IN IF pendingIndex > 0
       THEN [calls EXCEPT ![pendingIndex] =
                [Completed(log) EXCEPT !.isPending = TRUE]]
       ELSE Append(calls, [Completed(log) EXCEPT !.isPending = TRUE])

CompletionLoggerAlwaysPushes(calls, log) ==
    Append(calls, Completed(log))

CompletionLogger(calls, log) ==
    LET pendingIndex == FindPending(calls, log)
    IN IF pendingIndex > 0
       THEN [calls EXCEPT ![pendingIndex] = Completed(log)]
       ELSE Append(calls, Completed(log))

\* The start observer: push { ...log, endTime: 0, duration: 0, isPending: true }.
StartLogger(calls, log) ==
    Append(calls, [method |-> log.method, startTime |-> log.startTime,
                   endTime |-> 0, duration |-> 0, isPending |-> TRUE])

\* setAsyncPartial(prev => prev ? { ...prev, rpcCalls: [...calls] } : null)
RefreshPartialRevives(prev, calls) ==
    IF prev # Null
    THEN [type |-> prev.type, startTime |-> prev.startTime,
          rpcCalls |-> calls, isComplete |-> prev.isComplete]
    ELSE [type |-> "async", startTime |-> 0,
          rpcCalls |-> calls, isComplete |-> FALSE]

RefreshPartial(prev, calls) ==
    IF prev # Null
    THEN [type |-> prev.type, startTime |-> prev.startTime,
          rpcCalls |-> calls, isComplete |-> prev.isComplete]
    ELSE Null

\* The array a flow's observers write to: each closure captures its own
\* flow's array (asyncRPCCalls in the async loggers, syncRPCCalls in the sync).
LogTargetShared(f, kind) ==
    IF kind = "complete" THEN "async" ELSE f

LogTargetSwappedStart(f, kind) ==
    IF kind = "start" THEN (IF f = "async" THEN "sync" ELSE "async") ELSE f

LogTargetAlwaysAsync(f, kind) ==
    "async"

LogTarget(f, kind) ==
    f

\* ------------------------------------------------------------ interceptor
\* The events of createInstrumentedTransport.
StartEvent(method) ==
    [method |-> method, startTime |-> now]

CompleteEvent(method, startTime) ==
    [method |-> method, startTime |-> startTime, endTime |-> now,
     duration |-> now - startTime]

\* The short-circuit of the chain-identifier query.
ShortCircuits(prefetchChainId, method) ==
    prefetchChainId /\ method = "eth_chainId"

\* createBenchmarkClients: which transports report to the two observers.
ReportsWalletOnly(client) ==
    client = "wallet"

Reports(client) ==
    client \in Clients

\* createBenchmarkClients: the short-circuit flag each transport is built
\* with. The wallet transport gets prefetchChainId, the public transport is
\* built without it.
TransportPrefetch(client, prefetchChainId) ==
    IF client = "wallet" THEN prefetchChainId ELSE FALSE

\* The flow's log after the start event of a request through `client`.
LogAfterStart(calls, client, ev) ==
    IF Reports(client) THEN StartLogger(calls, ev) ELSE calls

\* The flow's log after the completion event of a request through `client`.
LogAfterComplete(calls, client, ev) ==
    IF Reports(client) THEN CompletionLogger(calls, ev) ELSE calls

\* -------------------------------------------------------------- the flows
ChainId == 11124
Account(f) == IF f = "async" THEN "asyncAccount" ELSE "syncAccount"

\* txParams: { to: zeroAddress, value: 0, ...paymasterConfig }, plus the
\* nonce when prefetchOptions.nonce, plus the three gas fields when
\* prefetchOptions.gasParams && prefetchedGas.
TxParamsNonceAlways(o, n, g) ==
    LET base == [to |-> "0x0", value |-> 0, paymaster |-> "paymaster"]
        withGas == IF o.gasParams /\ g # Null
                   THEN [maxFeePerGas |-> g.maxFeePerGas,
                         maxPriorityFeePerGas |-> g.maxPriorityFeePerGas,
                         gas |-> g.gas]
                   ELSE EmptyParams
    IN base @@ [nonce |-> n] @@ withGas

TxParams(o, n, g) ==
    LET base == [to |-> "0x0", value |-> 0, paymaster |-> "paymaster"]
        withNonce == IF o.nonce THEN [nonce |-> n] ELSE EmptyParams
        withGas == IF o.gasParams /\ g # Null
                   THEN [maxFeePerGas |-> g.maxFeePerGas,
                         maxPriorityFeePerGas |-> g.maxPriorityFeePerGas,
                         gas |-> g.gas]
                   ELSE EmptyParams
    IN base @@ withNonce @@ withGas

\* if (prefetchOptions.nonce && prefetchOptions.gasParams &&
\*     prefetchOptions.chainId && prefetchedGas)
FastPathGasAbsent(o, g) ==
    o.nonce /\ o.gasParams /\ o.chainId /\ g = Null

FastPathIgnoresChainId(o, g) ==
    o.nonce /\ o.gasParams /\ g # Null

FastPath(o, g) ==
    o.nonce /\ o.gasParams /\ o.chainId /\ g # Null

\* requestToSign = { ...txParams, from: clients.account.address,
\*                   chainId: abstractTestnet.id }
RequestToSign(f, params) ==
    [from |-> Account(f), chainId |-> ChainId] @@ params

\* What walletClient.prepareTransactionRequest resolves to: the parameters
\* with the sender, the chain and the fields it estimated filled in.
PreparedRequest(f, params) ==
    params @@ [from |-> Account(f), chainId |-> ChainId, nonce |-> 0,
               maxFeePerGas |-> 0, maxPriorityFeePerGas |-> 0, gas |-> 0]

\* The client action a flow awaits first.
FirstActionSyncFastPath(f, o, g) ==
    IF FastPath(o, g) THEN "signTransaction"
    ELSE IF f = "sync" THEN "prepareTransactionRequest" ELSE "sendTransaction"

FirstAction(f, o, g) ==
    IF f = "sync" THEN "prepareTransactionRequest"
    ELSE IF FastPath(o, g) THEN "signTransaction" ELSE "sendTransaction"

\* The client action a flow awaits when `action` has resolved; "return"
\* when the flow then returns its success result.
NextActionSyncPolls(f, action) ==
    CASE action \in {"signTransaction"} ->
            IF f = "async" THEN "sendRawTransaction" ELSE "sendRawTransactionSync"
      [] action = "prepareTransactionRequest" -> "signTransaction"
      [] action \in {"sendRawTransaction", "sendTransaction",
                     "sendRawTransactionSync"} -> "waitForTransactionReceipt"
      [] OTHER -> "return"

NextActionAsyncNoWait(f, action) ==
    IF f = "async"
    THEN CASE action = "signTransaction" -> "sendRawTransaction"
           [] OTHER -> "return"
    ELSE CASE action = "prepareTransactionRequest" -> "signTransaction"
           [] action = "signTransaction" -> "sendRawTransactionSync"
           [] OTHER -> "return"

NextAction(f, action) ==
    IF f = "async"
    THEN CASE action = "signTransaction" -> "sendRawTransaction"
           [] action = "sendRawTransaction" -> "waitForTransactionReceipt"
           [] action = "sendTransaction" -> "waitForTransactionReceipt"
           [] OTHER -> "return"
    ELSE CASE action = "prepareTransactionRequest" -> "signTransaction"
           [] action = "signTransaction" -> "sendRawTransactionSync"
           [] OTHER -> "return"

\* The argument a flow passes to a client action.
ActionArg(f, action, o, n, g) ==
    CASE action = "signTransaction" ->
            IF f = "async" THEN RequestToSign(f, TxParams(o, n, g))
            ELSE PreparedRequest(f, TxParams(o, n, g))
      [] action \in {"sendTransaction", "prepareTransactionRequest"} ->
            TxParams(o, n, g)
      [] OTHER -> Null

Invoke(action, arg) ==
    [name |-> action, arg |-> arg]

\* The requests a client action sends through its client's transport, in
\* order; waitForTransactionReceipt repeats its one request until answered.
Script(action) ==
    CASE action = "prepareTransactionRequest" ->
            <<[client |-> "wallet", method |-> "eth_estimateGas"]>>
      [] action = "signTransaction" ->
            <<[client |-> "wallet", method |-> "eth_chainId"]>>
      [] action = "sendTransaction" ->
            <<[client |-> "wallet", method |-> "eth_estimateGas"],
              [client |-> "wallet", method |-> "eth_sendRawTransaction"]>>
      [] action = "sendRawTransaction" ->
            <<[client |-> "public", method |-> "eth_sendRawTransaction"]>>
      [] action = "waitForTransactionReceipt" ->
            <<[client |-> "public", method |-> "eth_getTransactionReceipt"]>>
      [] action = "sendRawTransactionSync" ->
            <<[client |-> "public", method |-> "eth_sendRawTransactionSync"]>>
      [] OTHER -> <<>>

ClientActions ==
    {"prepareTransactionRequest", "signTransaction", "sendTransaction",
     "sendRawTransaction", "waitForTransactionReceipt",
     "sendRawTransactionSync"}

\* duration: endTime - startTime
Duration(startTime, endTime) ==
    endTime - startTime

\* The object returned at the end of the try block.
SuccessResult(f, startTime, endTime, txHash) ==
    [type |-> f, startTime |-> startTime, endTime |-> endTime,
     duration |-> Duration(startTime, endTime), txHash |-> txHash,
     status |-> "success", error |-> Null]

\* txHash: "" of the catch block.
ErrorTxHashStale ==
    "0xa"

ErrorTxHash ==
    ""

\* error instanceof Error ? error.message : "Unknown error"
ErrorMessage(e) ==
    IF e.isError THEN e.message ELSE "Unknown error"

\* The object returned by the catch block.
ErrorResult(f, startTime, endTime, e) ==
    [type |-> f, startTime |-> startTime, endTime |-> endTime,
     duration |-> Duration(startTime, endTime), txHash |-> ErrorTxHash,
     status |-> "error", error |-> ErrorMessage(e)]

\* try { ... } catch (error): every rejection of an awaited client action is
\* caught inside the flow.
CaughtErrorsOnly(e) ==
    e.isError

Caught(e) ==
    TRUE

\* ------------------------------------------------------- the orchestrator
NoSetup == [pending |-> {}, got |-> EmptyParams]
PrefetchIds == {"block", "fee", "gas"}
NonceIds == {"nonceAsync", "nonceSync"}

\* The request behind each setup call and the throwaway client it goes through.
SetupCall(id) ==
    CASE id = "block" -> <<"prefetchClients", "public", "eth_getBlockByNumber">>
      [] id = "fee" -> <<"prefetchClients", "public", "eth_maxPriorityFeePerGas">>
      [] id = "gas" -> <<"prefetchClients", "public", "eth_estimateGas">>
      [] id = "nonceAsync" -> <<"tempAsyncClient", "public", "eth_getTransactionCount">>
      [] OTHER -> <<"tempSyncClient", "public", "eth_getTransactionCount">>

\* What the network may answer to each setup call.
SetupAnswers(id) ==
    CASE id = "block" -> BaseFees
      [] id = "fee" -> PriorityFees
      [] id = "gas" -> GasEstimates
      [] OTHER -> NonceVals

\* prefetchedGas = { maxFeePerGas: block.baseFeePerGas ? block.baseFeePerGas +
\*   BigInt(maxPriorityFee) : BigInt(maxPriorityFee), ... }; 0n is falsy.
PrefetchedGasBaseFeeAlone(baseFee, maxPriorityFee, gasEstimate) ==
    [maxFeePerGas |-> IF baseFee # NoBaseFee /\ baseFee # 0
                      THEN baseFee ELSE maxPriorityFee,
     maxPriorityFeePerGas |-> maxPriorityFee,
     gas |-> gasEstimate]

PrefetchedGas(baseFee, maxPriorityFee, gasEstimate) ==
    [maxFeePerGas |-> IF baseFee # NoBaseFee /\ baseFee # 0
                      THEN baseFee + maxPriorityFee ELSE maxPriorityFee,
     maxPriorityFeePerGas |-> maxPriorityFee,
     gas |-> gasEstimate]

\* The observer the throwaway setup clients are built with: () => {}.
SetupLoggerRecords(calls, log) ==
    Append(calls, Completed(log))

SetupLogger(calls, log) ==
    calls

\* The flows' logs after the completion event of setup call id.
LogsAfterSetup(rc, id) ==
    [f \in F |-> SetupLogger(rc[f], CompleteEvent(SetupCall(id)[3], now))]

\* if (!prefetchOptions.nonce): whether the transaction counts are queried.
QueriesNonceUnlessBothPrefetched(o) ==
    ~o.nonce \/ ~o.chainId

QueriesNonce(o) ==
    ~o.nonce

\* The "Run Benchmark" button: disabled={isRunning || isPreparing}.
CanStartIgnoringPreparing ==
    ~isRunning

CanStart ==
    ~(isRunning \/ isPreparing)

\* The state every specification starts from: the component just mounted.
Mounted ==
    /\ now = 0
    /\ isRunning = FALSE
    /\ isPreparing = FALSE
    /\ result = [f \in F |-> Null]
    /\ partial = [f \in F |-> Null]
    /\ elapsed = [f \in F |-> 0]
    /\ timer = [f \in F |-> FALSE]
    /\ opc = "idle"
    /\ opts = [nonce |-> FALSE, gasParams |-> FALSE, chainId |-> FALSE]
    /\ rpcCalls = [f \in F |-> <<>>]
    /\ prefetchedGas = Null
    /\ nonce = [f \in F |-> 0]
    /\ setup = NoSetup
    /\ startT = [f \in F |-> 0]
    /\ pc = [f \in F |-> "idle"]
    /\ step = [f \in F |-> 0]
    /\ inflight = [f \in F |-> <<>>]
    /\ hash = [f \in F |-> ""]
    /\ fstart = [f \in F |-> 0]
    /\ acts = [f \in F |-> <<>>]
    /\ wire = {}
    /\ returned = [f \in F |-> <<>>]
    /\ runsInFlight = 0
    /\ comparison = Null

Init ==
    /\ variant = "preparing"
    /\ Mounted

\* One period of the elapsed-time tickers passes: Date.now() advances and
\* the callback of each live interval runs, setElapsed(Date.now() - startTime).
Tick ==
    /\ now < MaxTime
    /\ now' = now + 1
    /\ elapsed' = [f \in F |-> IF timer[f] THEN now' - startT[f] ELSE elapsed[f]]
    /\ UNCHANGED <<isRunning, isPreparing, result, timer, runVars, flowVars,
                   partial, rpcCalls, inflight, wire, returned>>
    /\ UNCHANGED comparison

\* runBenchmark from "NOW start the timers" to the first await of each flow:
\* both start times, the phase flags, the partial results, the two tickers,
\* and both flows entered up to their first client action.
StartFlows(o, g, n) ==
    /\ isPreparing' = FALSE
    /\ isRunning' = TRUE
    /\ opc' = "running"
    /\ prefetchedGas' = g
    /\ nonce' = n
    /\ setup' = NoSetup
    /\ startT' = [f \in F |-> now]
    /\ partial' = [f \in F |-> [type |-> f, startTime |-> now,
                                rpcCalls |-> <<>>, isComplete |-> FALSE]]
    /\ timer' = [f \in F |-> TRUE]
    /\ fstart' = [f \in F |-> now]
    /\ pc' = [f \in F |-> FirstAction(f, o, g)]
    /\ acts' = [f \in F |->
                 <<Invoke(FirstAction(f, o, g),
                          ActionArg(f, FirstAction(f, o, g), o, n[f], g))>>]
    /\ step' = [f \in F |-> 0]
    /\ hash' = [f \in F |-> ""]

\* The setup calls issued together by a Promise.all.
IssueSetup(ids) ==
    /\ setup' = [pending |-> ids, got |-> EmptyParams]
    /\ wire' = wire \cup {SetupCall(id) : id \in ids}

\* A click on the button with options o selected in the PrefetchControlPanel
\* (the prefetchOptions the closure reads): runBenchmark up to its first await.
RunBenchmark(o) ==
    /\ CanStart
    /\ opts' = o
    /\ result' = [f \in F |-> Null]
    /\ elapsed' = [f \in F |-> 0]
    /\ rpcCalls' = [f \in F |-> <<>>]
    /\ inflight' = [f \in F |-> <<>>]
    /\ returned' = [f \in F |-> <<>>]
    /\ runsInFlight' = runsInFlight + 1
    /\ IF o.gasParams \/ QueriesNonce(o)
       THEN /\ isPreparing' = TRUE
            /\ isRunning' = FALSE
            /\ opc' = IF o.gasParams THEN "prefetch" ELSE "nonce"
            /\ setup' = [pending |-> IF o.gasParams THEN PrefetchIds
                                     ELSE NonceIds,
                         got |-> EmptyParams]
            /\ wire' = {SetupCall(id) : id \in setup'.pending}
            /\ prefetchedGas' = Null
            /\ nonce' = [f \in F |-> 0]
            /\ pc' = [f \in F |-> "idle"]
            /\ step' = [f \in F |-> 0]
            /\ hash' = [f \in F |-> ""]
            /\ fstart' = [f \in F |-> 0]
            /\ acts' = [f \in F |-> <<>>]
            /\ startT' = [f \in F |-> 0]
            /\ UNCHANGED <<partial, timer>>
       ELSE /\ StartFlows(o, Null, [f \in F |-> 0])
            /\ wire' = {}
    /\ UNCHANGED <<variant, now>>
    /\ UNCHANGED comparison

\* A setup call of the Preparing phase resolves with answer v; when it is
\* the last of its Promise.all, runBenchmark goes on to its next await.
SetupResolve(id, v) ==
    /\ opc \in {"prefetch", "nonce"}
    /\ id \in setup.pending
    /\ LET got1 == (id :> v) @@ setup.got
           left == setup.pending \ {id}
       IN IF left # {}
          THEN /\ setup' = [pending |-> left, got |-> got1]
               /\ UNCHANGED <<isPreparing, isRunning, opc, prefetchedGas,
                              nonce, startT, partial, timer, flowVars, wire>>
          ELSE IF opc = "prefetch"
          THEN LET g == PrefetchedGas(got1["block"], got1["fee"], got1["gas"])
               IN IF QueriesNonce(opts)
                  THEN /\ opc' = "nonce"
                       /\ prefetchedGas' = g
                       /\ IssueSetup(NonceIds)
                       /\ UNCHANGED <<isPreparing, isRunning, nonce, startT,
                                      partial, timer, flowVars>>
                  ELSE /\ StartFlows(opts, g, [f \in F |-> 0])
                       /\ UNCHANGED wire
          ELSE /\ StartFlows(opts, prefetchedGas,
                             [f \in F |-> IF f = "async" THEN got1["nonceAsync"]
                                          ELSE got1["nonceSync"]])
               /\ UNCHANGED wire
    /\ rpcCalls' = LogsAfterSetup(rpcCalls, id)
    /\ UNCHANGED <<variant, now, result, elapsed, opts,
                   inflight, returned, runsInFlight>>
    /\ UNCHANGED comparison

\* A setup call rejects: its Promise.all rejects and runBenchmark ends by
\* that rejection, with the flags as they stand.
SetupReject(id) ==
    /\ opc \in {"prefetch", "nonce"}
    /\ id \in setup.pending
    /\ opc' = "rejected"
    /\ setup' = NoSetup
    /\ runsInFlight' = runsInFlight - 1
    /\ rpcCalls' = LogsAfterSetup(rpcCalls, id)
    /\ UNCHANGED <<variant, now, uiVars, opts, prefetchedGas, nonce, startT,
                   flowVars, partial, inflight, wire, returned>>
    /\ UNCHANGED comparison

\* ---------------------------------------------------- the flows' requests
\* The observers of flow f run on a start event of a request through `client`.
ObserveStart(rc, f, client, ev) ==
    [rc EXCEPT ![LogTarget(f, "start")] = LogAfterStart(@, client, ev)]

\* The observers of flow f run on a completion event.
ObserveComplete(rc, f, client, ev) ==
    [rc EXCEPT ![LogTarget(f, "complete")] = LogAfterComplete(@, client, ev)]

\* The partial result of flow f after one of its observers has run.
PartialAfter(prev, rc, f, client, kind) ==
    IF Reports(client) THEN RefreshPartial(prev, rc[LogTarget(f, kind)])
    ELSE prev

\* What a request answers when it resolves.
Answers(f, method) ==
    CASE method \in {"eth_sendRawTransaction", "eth_sendRawTransactionSync"} ->
            {TxHash(f)}
      [] method = "eth_getTransactionReceipt" ->
            {"receipt"} \cup (IF step[f] < MaxPolls THEN {"none"} ELSE {})
      [] OTHER -> {"ok"}

\* The result the .then callback publishes: res itself in the component with
\* a Preparing state; { ...res, duration: Date.now() - startTime } in the
\* component without one.
Published(f, res) ==
    IF variant = "legacy"
    THEN [res EXCEPT !.duration = now - startT[f]]
    ELSE res

\* The flow returned res and the orchestrator's .then callback ran:
\* clearInterval, setElapsed(res.duration), setPartial(null), setResult(res).
PublishKeepsTicker(f, res) ==
    /\ pc' = [pc EXCEPT ![f] = "settled"]
    /\ elapsed' = [elapsed EXCEPT ![f] = Published(f, res).duration]
    /\ partial' = [partial EXCEPT ![f] = Null]
    /\ result' = [result EXCEPT ![f] = Published(f, res)]
    /\ UNCHANGED timer

PublishLeavesTimerAndPartial(f, res) ==
    /\ pc' = [pc EXCEPT ![f] = "settled"]
    /\ elapsed' = [elapsed EXCEPT ![f] = Published(f, res).duration]
    /\ result' = [result EXCEPT ![f] = Published(f, res)]
    /\ UNCHANGED <<timer, partial>>

Publish(f, res) ==
    /\ pc' = [pc EXCEPT ![f] = "settled"]
    /\ timer' = [timer EXCEPT ![f] = FALSE]
    /\ elapsed' = [elapsed EXCEPT ![f] = Published(f, res).duration]
    /\ partial' = [partial EXCEPT ![f] = Null]
    /\ result' = [result EXCEPT ![f] = Published(f, res)]

\* An await of flow f rejected with e: the catch block returns the error
\* result, which is published.
Fails(f, e, partial1) ==
    IF Caught(e)
    THEN /\ Publish(f, ErrorResult(f, fstart[f], now, e))
         /\ UNCHANGED <<step, hash, acts>>
    ELSE /\ pc' = [pc EXCEPT ![f] = "thrown"]
         /\ partial' = [partial EXCEPT ![f] = partial1]
         /\ UNCHANGED <<step, hash, acts, timer, elapsed, result>>

\* The client action of flow f resolved: the flow awaits its next client
\* action, or returns its success result, which is published.
Proceeds(f, hash1, partial1) ==
    LET next == NextAction(f, pc[f])
    IN /\ hash' = [hash EXCEPT ![f] = hash1]
       /\ IF next = "return"
          THEN /\ Publish(f, SuccessResult(f, fstart[f], now, hash1))
               /\ UNCHANGED <<step, acts>>
          ELSE /\ pc' = [pc EXCEPT ![f] = next]
               /\ step' = [step EXCEPT ![f] = 0]
               /\ acts' = [acts EXCEPT ![f] =
                            Append(@, Invoke(next, ActionArg(f, next, opts,
                                                   nonce[f], prefetchedGas)))]
               /\ partial' = [partial EXCEPT ![f] = partial1]
               /\ UNCHANGED <<timer, elapsed, result>>

\* The request the current client action of flow f sends next.
NextRequest(f) ==
    IF pc[f] = "waitForTransactionReceipt" THEN Script(pc[f])[1]
    ELSE Script(pc[f])[step[f] + 1]

\* The current client action of flow f sends its next request through the
\* instrumented transport: the start event, and for a short-circuited chain
\* identifier query the answer and the completion event at once.
Issue(f) ==
    /\ pc[f] \in ClientActions
    /\ inflight[f] = <<>>
    /\ pc[f] # "waitForTransactionReceipt" => step[f] < Len(Script(pc[f]))
    /\ LET r == NextRequest(f)
           rc1 == ObserveStart(rpcCalls, f, r.client, StartEvent(r.method))
           p1 == PartialAfter(partial[f], rc1, f, r.client, "start")
       IN IF ShortCircuits(TransportPrefetch(r.client, opts.chainId), r.method)
          THEN LET rc2 == ObserveComplete(rc1, f, r.client,
                                          CompleteEvent(r.method, now))
                   p2 == PartialAfter(p1, rc2, f, r.client, "complete")
               IN /\ rpcCalls' = rc2
                  /\ partial' = [partial EXCEPT ![f] = p2]
                  /\ step' = [step EXCEPT ![f] = @ + 1]
                  /\ returned' = [returned EXCEPT ![f] =
                        Append(@, [method |-> r.method, ok |-> TRUE,
                                   value |-> "ok"])]
                  /\ UNCHANGED <<inflight, wire>>
          ELSE /\ rpcCalls' = rc1
               /\ partial' = [partial EXCEPT ![f] = p1]
               /\ inflight' = [inflight EXCEPT ![f] =
                     <<[client |-> r.client, method |-> r.method,
                        startTime |-> now]>>]
               /\ wire' = wire \cup {<<f, r.client, r.method>>}
               /\ UNCHANGED <<step, returned>>
    /\ UNCHANGED <<now, isRunning, isPreparing, result,
                   elapsed, timer, runVars, pc, hash, fstart, acts>>
    /\ UNCHANGED comparison

\* The request in flight of flow f resolves with answer v: the completion
\* event, then the awaiting client action goes on.
Resolve(f, v) ==
    /\ pc[f] \in ClientActions
    /\ inflight[f] # <<>>
    /\ LET c == Head(inflight[f])
           rc1 == ObserveComplete(rpcCalls, f, c.client,
                                  CompleteEvent(c.method, c.startTime))
           p1 == PartialAfter(partial[f], rc1, f, c.client, "complete")
           done == IF pc[f] = "waitForTransactionReceipt" THEN v = "receipt"
                   ELSE /\ step[f] + 1 = Len(Script(pc[f]))
                        /\ pc[f] # "signTransaction"
       IN /\ v \in Answers(f, c.method)
          /\ rpcCalls' = rc1
          /\ inflight' = [inflight EXCEPT ![f] = <<>>]
          /\ returned' = [returned EXCEPT ![f] =
                Append(@, [method |-> c.method, ok |-> TRUE, value |-> v])]
          /\ IF done
             THEN Proceeds(f, IF v \in Hashes THEN v ELSE hash[f], p1)
             ELSE /\ step' = [step EXCEPT ![f] = @ + 1]
                  /\ partial' = [partial EXCEPT ![f] = p1]
                  /\ UNCHANGED <<pc, hash, acts, timer, elapsed, result>>
    /\ UNCHANGED <<now, isRunning, isPreparing, runVars,
                   fstart, wire>>
    /\ UNCHANGED comparison

\* The request in flight of flow f rejects with e: the completion event,
\* then the rejection reaches the flow.
Reject(f, e) ==
    /\ pc[f] \in ClientActions
    /\ inflight[f] # <<>>
    /\ LET c == Head(inflight[f])
           rc1 == ObserveComplete(rpcCalls, f, c.client,
                                  CompleteEvent(c.method, c.startTime))
           p1 == PartialAfter(partial[f], rc1, f, c.client, "complete")
       IN /\ rpcCalls' = rc1
          /\ inflight' = [inflight EXCEPT ![f] = <<>>]
          /\ returned' = [returned EXCEPT ![f] =
                Append(@, [method |-> c.method, ok |-> FALSE,
                           value |-> ErrorMessage(e)])]
          /\ Fails(f, e, p1)
    /\ UNCHANGED <<now, isRunning, isPreparing, runVars,
                   fstart, wire>>
    /\ UNCHANGED comparison

\* walletClient.signTransaction signs with the local account once its
\* request has been answered: the serialized transaction, or a rejection.
SignLocal(f, ok, e) ==
    /\ pc[f] = "signTransaction"
    /\ inflight[f] = <<>>
    /\ step[f] = Len(Script("signTransaction"))
    /\ returned' = [returned EXCEPT ![f] =
          Append(@, [method |-> "sign", ok |-> ok,
                     value |-> IF ok THEN "ok" ELSE ErrorMessage(e)])]
    /\ IF ok THEN Proceeds(f, hash[f], partial[f])
       ELSE Fails(f, e, partial[f])
    /\ UNCHANGED <<now, isRunning, isPreparing, runVars,
                   fstart, rpcCalls, inflight, wire>>
    /\ UNCHANGED comparison

\* Promise.all([asyncPromise, syncPromise]) has resolved.
EitherSettled ==
    \E f \in F : pc[f] = "settled"

BothSettled ==
    \A f \in F : pc[f] = "settled"

\* await Promise.all([asyncPromise, syncPromise]); setIsRunning(false).
MarkComplete ==
    /\ opc = "running"
    /\ BothSettled
    /\ isRunning' = FALSE
    /\ opc' = "idle"
    /\ runsInFlight' = runsInFlight - 1
    /\ UNCHANGED <<variant, now, isPreparing, result, elapsed, timer,
                   opts, prefetchedGas, nonce, setup, startT, flowVars,
                   partial, rpcCalls, inflight, wire, returned>>
    /\ UNCHANGED comparison

Next ==
    \/ Tick
    \/ \E o \in AllOptions : RunBenchmark(o)
    \/ \E id \in PrefetchIds \cup NonceIds : \E v \in SetupAnswers(id) :
          SetupResolve(id, v)
    \/ \E id \in PrefetchIds \cup NonceIds : SetupReject(id)
    \/ \E f \in F : Issue(f)
    \/ \E f \in F : \E v \in Hashes \cup {"receipt", "none", "ok"} : Resolve(f, v)
    \/ \E f \in F : \E e \in RpcErrors : Reject(f, e)
    \/ \E f \in F : \E ok \in BOOLEAN : \E e \in SignErrors : SignLocal(f, ok, e)
    \/ MarkComplete

Spec == Init /\ [][Next]_vars


\* ------------------------------------ the orchestrator without Preparing
\* Its "Run Benchmark" button: disabled={isRunning}.
CanStartLegacy ==
    ~isRunning

InitLegacy ==
    /\ variant = "legacy"
    /\ Mounted

\* runBenchmark from "Run both transactions in parallel" to the first await
\* of each flow; the start times, partial results and tickers were set when
\* the run began.
StartFlowsLegacy(o, g, n) ==
    /\ opc' = "running"
    /\ prefetchedGas' = g
    /\ nonce' = n
    /\ setup' = NoSetup
    /\ fstart' = [f \in F |-> now]
    /\ pc' = [f \in F |-> FirstAction(f, o, g)]
    /\ acts' = [f \in F |->
                 <<Invoke(FirstAction(f, o, g),
                          ActionArg(f, FirstAction(f, o, g), o, n[f], g))>>]
    /\ step' = [f \in F |-> 0]
    /\ hash' = [f \in F |-> ""]

\* The transaction-count queries go through the flows' own public clients:
\* each is a request of that flow's instrumented transport.
QueryNoncesLegacy(rc, ps) ==
    LET rc1 == [f \in F |->
                  LogAfterStart(rc[f], "public",
                                StartEvent("eth_getTransactionCount"))]
    IN /\ opc' = "nonce"
       /\ rpcCalls' = rc1
       /\ partial' = [f \in F |->
                        IF Reports("public") THEN RefreshPartial(ps[f], rc1[f])
                        ELSE ps[f]]
       /\ inflight' = [f \in F |->
                         <<[client |-> "public",
                            method |-> "eth_getTransactionCount",
                            startTime |-> now]>>]
       /\ wire' = wire \cup {<<f, "public", "eth_getTransactionCount">> : f \in F}

\* A click on the button with options o selected: runBenchmark up to its
\* first await.
RunBenchmarkLegacy(o) ==
    /\ CanStartLegacy
    /\ isRunning' = TRUE
    /\ opts' = o
    /\ result' = [f \in F |-> Null]
    /\ elapsed' = [f \in F |-> 0]
    /\ returned' = [f \in F |-> <<>>]
    /\ runsInFlight' = runsInFlight + 1
    /\ startT' = [f \in F |-> now]
    /\ timer' = [f \in F |-> TRUE]
    /\ LET fresh == [f \in F |-> [type |-> f, startTime |-> now,
                                  rpcCalls |-> <<>>, isComplete |-> FALSE]]
           empty == [f \in F |-> <<>>]
           idle == /\ prefetchedGas' = Null
                   /\ nonce' = [f \in F |-> 0]
                   /\ pc' = [f \in F |-> "idle"]
                   /\ step' = [f \in F |-> 0]
                   /\ hash' = [f \in F |-> ""]
                   /\ fstart' = [f \in F |-> 0]
                   /\ acts' = [f \in F |-> <<>>]
       IN IF o.gasParams
          THEN /\ opc' = "prefetch"
               /\ setup' = [pending |-> PrefetchIds, got |-> EmptyParams]
               /\ wire' = {SetupCall(id) : id \in PrefetchIds}
               /\ rpcCalls' = empty
               /\ inflight' = empty
               /\ partial' = fresh
               /\ idle
          ELSE IF QueriesNonce(o)
          THEN /\ QueryNoncesLegacy(empty, fresh)
               /\ setup' = NoSetup
               /\ idle
          ELSE /\ StartFlowsLegacy(o, Null, [f \in F |-> 0])
               /\ rpcCalls' = empty
               /\ inflight' = empty
               /\ partial' = fresh
               /\ wire' = {}
    /\ UNCHANGED <<variant, now, isPreparing>>
    /\ UNCHANGED comparison

\* A call of the gas prefetch resolves; the last one lets runBenchmark go on.
PrefetchResolveLegacy(id, v) ==
    /\ opc = "prefetch"
    /\ id \in setup.pending
    /\ LET got1 == (id :> v) @@ setup.got
           left == setup.pending \ {id}
           g == PrefetchedGas(got1["block"], got1["fee"], got1["gas"])
       IN IF left # {}
          THEN /\ setup' = [pending |-> left, got |-> got1]
               /\ UNCHANGED <<opc, prefetchedGas, nonce, flowVars, partial,
                              rpcCalls, inflight, wire>>
          ELSE IF QueriesNonce(opts)
          THEN /\ QueryNoncesLegacy(rpcCalls, partial)
               /\ prefetchedGas' = g
               /\ setup' = NoSetup
               /\ UNCHANGED <<nonce, flowVars>>
          ELSE /\ StartFlowsLegacy(opts, g, [f \in F |-> 0])
               /\ UNCHANGED <<partial, rpcCalls, inflight, wire>>
    /\ UNCHANGED <<variant, now, uiVars, opts, startT, returned, runsInFlight>>
    /\ UNCHANGED comparison

\* A call of the gas prefetch rejects: runBenchmark ends by that rejection.
PrefetchRejectLegacy(id) ==
    /\ opc = "prefetch"
    /\ id \in setup.pending
    /\ opc' = "rejected"
    /\ setup' = NoSetup
    /\ runsInFlight' = runsInFlight - 1
    /\ UNCHANGED <<variant, now, uiVars, opts, prefetchedGas, nonce, startT,
                   flowVars, partial, rpcCalls, inflight, wire, returned>>
    /\ UNCHANGED comparison

\* The transaction-count query of flow f resolves with v; when both have,
\* the flows start. After the other query rejected only the observers run.
NonceResolveLegacy(f, v) ==
    /\ opc \in {"nonce", "rejected"}
    /\ inflight[f] # <<>>
    /\ LET c == Head(inflight[f])
           rc1 == ObserveComplete(rpcCalls, f, c.client,
                                  CompleteEvent(c.method, c.startTime))
           n1 == [nonce EXCEPT ![f] = v]
       IN /\ rpcCalls' = rc1
          /\ partial' = [partial EXCEPT ![f] =
                            PartialAfter(@, rc1, f, c.client, "complete")]
          /\ inflight' = [inflight EXCEPT ![f] = <<>>]
          /\ returned' = [returned EXCEPT ![f] =
                Append(@, [method |-> c.method, ok |-> TRUE, value |-> "ok"])]
          /\ IF opc = "nonce" /\ inflight[Other(f)] = <<>>
             THEN StartFlowsLegacy(opts, prefetchedGas, n1)
             ELSE /\ nonce' = IF opc = "nonce" THEN n1 ELSE nonce
                  /\ UNCHANGED <<opc, prefetchedGas, setup, flowVars>>
    /\ UNCHANGED <<variant, now, uiVars, opts, startT, wire, runsInFlight>>
    /\ UNCHANGED comparison

\* The transaction-count query of flow f rejects: runBenchmark ends by that
\* rejection.
NonceRejectLegacy(f, e) ==
    /\ opc \in {"nonce", "rejected"}
    /\ inflight[f] # <<>>
    /\ LET c == Head(inflight[f])
           rc1 == ObserveComplete(rpcCalls, f, c.client,
                                  CompleteEvent(c.method, c.startTime))
       IN /\ rpcCalls' = rc1
          /\ partial' = [partial EXCEPT ![f] =
                            PartialAfter(@, rc1, f, c.client, "complete")]
          /\ inflight' = [inflight EXCEPT ![f] = <<>>]
          /\ returned' = [returned EXCEPT ![f] =
                Append(@, [method |-> c.method, ok |-> FALSE,
                           value |-> ErrorMessage(e)])]
    /\ opc' = "rejected"
    /\ runsInFlight' = IF opc = "nonce" THEN runsInFlight - 1 ELSE runsInFlight
    /\ UNCHANGED <<variant, now, uiVars, opts, prefetchedGas, nonce, setup,
                   startT, flowVars, wire>>
    /\ UNCHANGED comparison

NextLegacy ==
    \/ Tick
    \/ \E o \in AllOptions : RunBenchmarkLegacy(o)
    \/ \E id \in PrefetchIds : \E v \in SetupAnswers(id) :
          PrefetchResolveLegacy(id, v)
    \/ \E id \in PrefetchIds : PrefetchRejectLegacy(id)
    \/ \E f \in F : \E v \in NonceVals : NonceResolveLegacy(f, v)
    \/ \E f \in F : \E e \in RpcErrors : NonceRejectLegacy(f, e)
    \/ \E f \in F : Issue(f)
    \/ \E f \in F : \E v \in Hashes \cup {"receipt", "none", "ok"} : Resolve(f, v)
    \/ \E f \in F : \E e \in RpcErrors : Reject(f, e)
    \/ \E f \in F : \E ok \in BOOLEAN : \E e \in SignErrors : SignLocal(f, ok, e)
    \/ MarkComplete

SpecLegacy == InitLegacy /\ [][NextLegacy]_vars


\* ------------------------------- the client pairs of a run, on their own
\* The two pairs createBenchmarkClients built for a run in its Running
\* phase, driven by any caller: requests of any method through either client
\* of either flow, several in flight at once.
ClientMethods == {"eth_chainId", "eth_getTransactionReceipt"}

Requested(f) == Len(inflight[f]) + Len(returned[f])

\* Whether the log holds the completed entry of the call described by ev.
HasCompleted(calls, ev) ==
    \E i \in DOMAIN calls :
       /\ calls[i].method = ev.method
       /\ calls[i].startTime = ev.startTime
       /\ calls[i].endTime = ev.endTime
       /\ ~calls[i].isPending

\* The sequence s without its i-th element.
Without(s, i) ==
    [j \in 1..(Len(s) - 1) |-> IF j < i THEN s[j] ELSE s[j + 1]]

InitClients ==
    /\ variant = "preparing"
    /\ now = 0
    /\ isRunning = TRUE
    /\ isPreparing = FALSE
    /\ result = [f \in F |-> Null]
    /\ partial = [f \in F |-> [type |-> f, startTime |-> 0,
                               rpcCalls |-> <<>>, isComplete |-> FALSE]]
    /\ elapsed = [f \in F |-> 0]
    /\ timer = [f \in F |-> TRUE]
    /\ opc = "clients"
    /\ opts \in {o \in AllOptions : o.nonce /\ ~o.gasParams}
    /\ rpcCalls = [f \in F |-> <<>>]
    /\ prefetchedGas = Null
    /\ nonce = [f \in F |-> 0]
    /\ setup = NoSetup
    /\ startT = [f \in F |-> 0]
    /\ pc = [f \in F |-> "idle"]
    /\ step = [f \in F |-> 0]
    /\ inflight = [f \in F |-> <<>>]
    /\ hash = [f \in F |-> ""]
    /\ fstart = [f \in F |-> 0]
    /\ acts = [f \in F |-> <<>>]
    /\ wire = {}
    /\ returned = [f \in F |-> <<>>]
    /\ runsInFlight = 1
    /\ comparison = Null

\* A caller sends a request of method m through `client` of flow f: the
\* start event; then either the short-circuit answers at once, with the
\* completion event, or the request goes to the underlying transport.
ClientRequest(f, client, m) ==
    /\ opc = "clients"
    /\ Requested("async") + Requested("sync") < MaxRequests
    /\ Len(inflight[f]) < MaxInflight
    /\ LET rc1 == ObserveStart(rpcCalls, f, client, StartEvent(m))
           p1 == PartialAfter(partial[f], rc1, f, client, "start")
       IN IF ShortCircuits(TransportPrefetch(client, opts.chainId), m)
          THEN LET ev == CompleteEvent(m, now)
                   rc2 == ObserveComplete(rc1, f, client, ev)
                   p2 == PartialAfter(p1, rc2, f, client, "complete")
               IN /\ rpcCalls' = rc2
                  /\ partial' = [partial EXCEPT ![f] = p2]
                  /\ returned' = [returned EXCEPT ![f] =
                        Append(@, [method |-> m, ok |-> TRUE, value |-> "ok",
                                   startTime |-> now,
                                   logged |-> HasCompleted(rc2[f], ev)])]
                  /\ UNCHANGED <<inflight, wire>>
          ELSE /\ rpcCalls' = rc1
               /\ partial' = [partial EXCEPT ![f] = p1]
               /\ inflight' = [inflight EXCEPT ![f] =
                     Append(@, [client |-> client, method |-> m,
                                startTime |-> now])]
               /\ wire' = wire \cup {<<f, client, m>>}
               /\ UNCHANGED returned
    /\ UNCHANGED <<now, uiVars, runVars, flowVars>>
    /\ UNCHANGED comparison

\* The i-th forwarded call of flow f settles, resolved (ok) or rejected with
\* e: the completion event, then the outcome reaches the caller.
ClientSettle(f, i, ok, e) ==
    /\ opc = "clients"
    /\ i \in DOMAIN inflight[f]
    /\ LET c == inflight[f][i]
           ev == CompleteEvent(c.method, c.startTime)
           rc1 == ObserveComplete(rpcCalls, f, c.client, ev)
       IN /\ rpcCalls' = rc1
          /\ partial' = [partial EXCEPT ![f] =
                            PartialAfter(@, rc1, f, c.client, "complete")]
          /\ inflight' = [inflight EXCEPT ![f] = Without(@, i)]
          /\ returned' = [returned EXCEPT ![f] =
                Append(@, [method |-> c.method, ok |-> ok,
                           value |-> IF ok THEN "ok" ELSE ErrorMessage(e),
                           startTime |-> c.startTime,
                           logged |-> HasCompleted(rc1[f], ev)])]
    /\ UNCHANGED <<now, uiVars, runVars, flowVars, wire>>
    /\ UNCHANGED comparison

NextClients ==
    \/ Tick
    \/ \E f \in F : \E client \in Clients : \E m \in ClientMethods :
          ClientRequest(f, client, m)
    \/ \E f \in F : \E i \in 1..MaxInflight : \E e \in RpcErrors :
          ClientSettle(f, i, TRUE, e)
    \/ \E f \in F : \E i \in 1..MaxInflight : \E e \in RpcErrors :
          ClientSettle(f, i, FALSE, e)

SpecClients == InitClients /\ [][NextClients]_vars


\* ------------------------------------------------------ the comparison card
\* ComparisonCard({ asyncResult, syncResult }): winner and timeDifference.
ComparisonCard(asyncResult, syncResult) ==
    [winner |-> IF syncResult.duration < asyncResult.duration
                THEN "Sync (EIP-7966)" ELSE "Async",
     timeDifference |-> IF asyncResult.duration - syncResult.duration < 0
                        THEN syncResult.duration - asyncResult.duration
                        ELSE asyncResult.duration - syncResult.duration]

\* The completed results the card may be given as flow f's: any duration up
\* to MaxDuration, success or error.
CompletedResults(f) ==
    {SuccessResult(f, 0, d, TxHash(f)) : d \in 0..MaxDuration}
       \cup {ErrorResult(f, 0, d, e) : d \in 0..MaxDuration, e \in RpcErrors}

InitCompare ==
    /\ variant = "preparing"
    /\ now = 0
    /\ isRunning = FALSE
    /\ isPreparing = FALSE
    /\ result \in {r \in [F -> UNION {CompletedResults(f) : f \in F}] :
                      \A f \in F : r[f] \in CompletedResults(f)}
    /\ partial = [f \in F |-> Null]
    /\ elapsed = [f \in F |-> result[f].duration]
    /\ timer = [f \in F |-> FALSE]
    /\ opc = "compare"
    /\ opts = [nonce |-> FALSE, gasParams |-> FALSE, chainId |-> FALSE]
    /\ rpcCalls = [f \in F |-> <<>>]
    /\ prefetchedGas = Null
    /\ nonce = [f \in F |-> 0]
    /\ setup = NoSetup
    /\ startT = [f \in F |-> 0]
    /\ pc = [f \in F |-> "settled"]
    /\ step = [f \in F |-> 0]
    /\ inflight = [f \in F |-> <<>>]
    /\ hash = [f \in F |-> ""]
    /\ fstart = [f \in F |-> 0]
    /\ acts = [f \in F |-> <<>>]
    /\ wire = {}
    /\ returned = [f \in F |-> <<>>]
    /\ runsInFlight = 0
    /\ comparison = Null

\* The card is rendered with the two results as its props.
RenderComparison ==
    /\ opc = "compare"
    /\ comparison = Null
    /\ comparison' = ComparisonCard(result["async"], result["sync"])
    /\ UNCHANGED <<variant, now, uiVars, opc, opts, rpcCalls, prefetchedGas,
                   nonce, setup, startT, flowVars, partial, inflight, wire,
                   returned, runsInFlight>>

NextCompare ==
    RenderComparison

SpecCompare == InitCompare /\ [][NextCompare]_vars


\* ------------------------------------------------- the gas prefetch alone
\* The three answers of the gas prefetch, any base fee (or none) and any
\* priority fee up to MaxFee, and the prefetchedGas computed from them.
InitGas ==
    /\ variant = "preparing"
    /\ now = 0
    /\ isRunning = FALSE
    /\ isPreparing = TRUE
    /\ result = [f \in F |-> Null]
    /\ partial = [f \in F |-> Null]
    /\ elapsed = [f \in F |-> 0]
    /\ timer = [f \in F |-> FALSE]
    /\ opc = "gas"
    /\ opts = [nonce |-> TRUE, gasParams |-> TRUE, chainId |-> TRUE]
    /\ rpcCalls = [f \in F |-> <<>>]
    /\ prefetchedGas = Null
    /\ nonce = [f \in F |-> 0]
    /\ \E b \in {NoBaseFee} \cup 0..MaxFee : \E p \in 0..MaxFee :
          \E g \in GasEstimates :
             setup = [pending |-> {},
                      got |-> [id \in PrefetchIds |->
                                 CASE id = "block" -> b
                                   [] id = "fee" -> p
                                   [] OTHER -> g]]
    /\ startT = [f \in F |-> 0]
    /\ pc = [f \in F |-> "idle"]
    /\ step = [f \in F |-> 0]
    /\ inflight = [f \in F |-> <<>>]
    /\ hash = [f \in F |-> ""]
    /\ fstart = [f \in F |-> 0]
    /\ acts = [f \in F |-> <<>>]
    /\ wire = {SetupCall(id) : id \in PrefetchIds}
    /\ returned = [f \in F |-> <<>>]
    /\ runsInFlight = 1
    /\ comparison = Null

\* prefetchedGas = { maxFeePerGas: ..., maxPriorityFeePerGas: ..., gas: ... }
ComputePrefetchedGas ==
    /\ opc = "gas"
    /\ prefetchedGas = Null
    /\ prefetchedGas' = PrefetchedGas(setup.got["block"], setup.got["fee"],
                                      setup.got["gas"])
    /\ UNCHANGED <<variant, now, uiVars, opc, opts, rpcCalls, nonce, setup,
                   startT, flowVars, partial, inflight, wire, returned,
                   runsInFlight, comparison>>

NextGas ==
    ComputePrefetchedGas

SpecGas == InitGas /\ [][NextGas]_vars

\* ================================================================= claims
InFlight == opc \in {"prefetch", "nonce", "running"}
Settled(f) == pc[f] = "settled"
ActionNames(f) == {acts[f][i].name : i \in DOMAIN acts[f]}
ActionCount(f, name) == Cardinality({i \in DOMAIN acts[f] : acts[f][i].name = name})
LogMethods(f) == [i \in DOMAIN rpcCalls[f] |-> rpcCalls[f][i].method]
Logged(f, method) == \E i \in DOMAIN rpcCalls[f] : rpcCalls[f][i].method = method
LogCount(f, method) ==
    Cardinality({i \in DOMAIN rpcCalls[f] : rpcCalls[f][i].method = method})
OwnFailure(f) == \E i \in DOMAIN returned[f] : ~returned[f][i].ok
\* The requests of flow f that were answered, in order (the local signing is
\* no request).
RECURSIVE RequestsOf(_)
RequestsOf(rs) ==
    IF rs = <<>> THEN <<>>
    ELSE IF Head(rs).method = "sign" THEN RequestsOf(Tail(rs))
    ELSE <<Head(rs).method>> \o RequestsOf(Tail(rs))
SubmitMethods == {"eth_sendRawTransaction", "eth_sendRawTransactionSync"}

\* C1: in the orchestrator with a Preparing state at most one run is in
\* flight in every reachable state, and while a run is in flight (from
\* entering Preparing until it is marked complete) the button that starts a
\* run is disabled.
C1_AtMostOneRun ==
    /\ runsInFlight <= 1
    /\ InFlight => (runsInFlight = 1 /\ ~CanStart)

\* A run is in its Preparing phase, awaiting a setup call.
C1_Witness ==
    /\ opc = "nonce"
    /\ isPreparing
    /\ runsInFlight = 1
    /\ prefetchedGas # Null

\* C2: no failure escapes a flow: a flow never ends by throwing, and a flow
\* that has settled has a result with status error and an error message when
\* one of its steps failed, and with status success and no error otherwise.
C2_FlowsNeverThrow ==
    \A f \in F :
       /\ pc[f] # "thrown"
       /\ Settled(f) =>
             /\ result[f] # Null
             /\ result[f].type = f
             /\ IF OwnFailure(f)
                THEN /\ result[f].status = "error"
                     /\ result[f].error \in {"rpc rejected", "signing failed",
                                             "Unknown error"}
                ELSE /\ result[f].status = "success"
                     /\ result[f].error = Null

\* The polling flow failed in its receipt wait and the synchronous flow failed
\* in signing with a thrown value that is no Error.
C2_Witness ==
    /\ Settled("async") /\ Settled("sync")
    /\ result["async"].status = "error"
    /\ "waitForTransactionReceipt" \in ActionNames("async")
    /\ result["sync"].error = "Unknown error"

\* C3: a flow's result depends on its own steps alone: whatever the other
\* flow did, a settled flow has status error exactly when one of its own
\* steps failed, the hash of its own transaction on success, and a call log
\* listing exactly its own requests in the order it sent them.
C3_FlowsIndependent ==
    \A f \in F :
       /\ LogMethods(f) = RequestsOf(returned[f])
                          \o [i \in DOMAIN inflight[f] |-> inflight[f][i].method]
       /\ Settled(f) =>
             /\ result[f].status = (IF OwnFailure(f) THEN "error" ELSE "success")
             /\ result[f].txHash = (IF OwnFailure(f) THEN "" ELSE TxHash(f))
             /\ ~OwnFailure(f) => acts[f][Len(acts[f])].name =
                                    (IF f = "async" THEN "waitForTransactionReceipt"
                                     ELSE "sendRawTransactionSync")

\* The polling flow failed first and the synchronous flow went on through all
\* its steps to success.
C3_Witness ==
    /\ Settled("async") /\ Settled("sync")
    /\ result["async"].status = "error"
    /\ result["sync"].status = "success"
    /\ result["async"].endTime < result["sync"].endTime
    /\ ActionCount("sync", "signTransaction") = 1

\* C4 as stated: a failed polling flow's result carries the hash obtained
\* before the failure.
C4_ErrorCarriesObtainedHash ==
    (Settled("async") /\ result["async"].status = "error")
       => result["async"].txHash = hash["async"]

\* C4 as amended: a failed polling flow's result has the empty hash, also
\* when submission had returned a hash before the failure.
C4_ErrorHashEmpty ==
    (Settled("async") /\ result["async"].status = "error")
       => result["async"].txHash = ""

\* The polling flow failed in its receipt wait, after submission returned a
\* hash.
C4_Witness ==
    /\ Settled("async")
    /\ result["async"].status = "error"
    /\ hash["async"] = TxHash("async")

\* C5: with nonce, gasParams and chainId all prefetched and prefetched gas
\* present, the polling flow never invokes sendTransaction or
\* prepareTransactionRequest and sends no estimate request; it signs the
\* parameters with the sender and the chain id attached and submits through
\* sendRawTransaction.
C5_FastPathSkipsPrepare ==
    (/\ pc["async"] # "idle"
     /\ opts.nonce /\ opts.gasParams /\ opts.chainId
     /\ prefetchedGas # Null)
       => /\ ActionNames("async") \subseteq
                {"signTransaction", "sendRawTransaction",
                 "waitForTransactionReceipt"}
          /\ ~Logged("async", "eth_estimateGas")
          /\ \A c \in Clients : <<"async", c, "eth_estimateGas">> \notin wire
          /\ acts["async"][1].name = "signTransaction"
          /\ acts["async"][1].arg =
                [from |-> "asyncAccount", chainId |-> ChainId]
                @@ TxParams(opts, nonce["async"], prefetchedGas)
          /\ hash["async"] # "" =>
                /\ acts["async"][2].name = "sendRawTransaction"
                /\ <<"async", "public", "eth_sendRawTransaction">> \in wire

\* The polling flow succeeded on the fast path.
C5_Witness ==
    /\ Settled("async")
    /\ result["async"].status = "success"
    /\ opts.nonce /\ opts.gasParams /\ opts.chainId
    /\ prefetchedGas # Null

\* C6: a successful synchronous flow has invoked sendRawTransactionSync once,
\* its log holds one eth_sendRawTransactionSync call, the result's hash is
\* the transaction hash that call answered, and the flow has issued no
\* receipt-retrieval call.
C6_SyncSingleSubmit ==
    (Settled("sync") /\ result["sync"].status = "success")
       => /\ ActionCount("sync", "sendRawTransactionSync") = 1
          /\ LogCount("sync", "eth_sendRawTransactionSync") = 1
          /\ \E i \in DOMAIN returned["sync"] :
                /\ returned["sync"][i].method = "eth_sendRawTransactionSync"
                /\ returned["sync"][i].value = result["sync"].txHash
          /\ "waitForTransactionReceipt" \notin ActionNames("sync")
          /\ ~Logged("sync", "eth_getTransactionReceipt")
          /\ \A c \in Clients :
                <<"sync", c, "eth_getTransactionReceipt">> \notin wire

\* The synchronous flow succeeded.
C6_Witness ==
    /\ Settled("sync")
    /\ result["sync"].status = "success"
    /\ result["sync"].txHash = "0xb"

\* C7 as stated: every completed polling result has a submit-type call in its
\* log, and a receipt-retrieval call when it succeeded.
C7_EveryResultHasSubmit ==
    Settled("async")
       => /\ \E m \in SubmitMethods : Logged("async", m)
          /\ result["async"].status = "success"
                => Logged("async", "eth_getTransactionReceipt")

\* C7 as amended: a completed polling result whose flow reached submission
\* (it succeeded, or it failed at or after the submit request) has a
\* submit-type call in its log, and a receipt-retrieval call when it
\* succeeded; a flow that failed before submission has no submit-type call.
C7_SubmittedResultHasSubmit ==
    Settled("async")
       => /\ (\E m \in SubmitMethods : Logged("async", m))
             <=> (\E c \in Clients :
                     <<"async", c, "eth_sendRawTransaction">> \in wire)
          /\ result["async"].status = "success"
                => /\ Logged("async", "eth_sendRawTransaction")
                   /\ Logged("async", "eth_getTransactionReceipt")

\* The polling flow succeeded on the normal path.
C7_Witness ==
    /\ Settled("async")
    /\ result["async"].status = "success"
    /\ "sendTransaction" \in ActionNames("async")
    /\ Len(rpcCalls["async"]) >= 3

\* C8: every completed result the orchestrator publishes has duration equal
\* to endTime minus startTime, and at least 0.
C8_DurationIsEndMinusStart ==
    \A f \in F :
       result[f] # Null
          => /\ result[f].duration = result[f].endTime - result[f].startTime
             /\ result[f].duration >= 0

\* C9: when chain-identifier prefetch is enabled, no chain-identifier query
\* issued through a client of a flow, wallet or public, reaches the
\* underlying transport, and each such query is in the flow's call log.
C9_ChainIdNeverReachesTransport ==
    opts.chainId
       => \A f \in F :
             /\ \A client \in Clients : <<f, client, "eth_chainId">> \notin wire
             /\ (\E i \in DOMAIN returned[f] : returned[f][i].method = "eth_chainId")
                   => Logged(f, "eth_chainId")

\* C10: every call the interceptor forwarded has exactly one completion
\* event: a settled call, resolved or rejected, has one completed log entry
\* and an unsettled one a pending entry; the outcome, a failure included,
\* reaches the caller with the completion event already observed.
C10_OneCompletionPerCall ==
    \A f \in F :
       /\ Cardinality({i \in DOMAIN rpcCalls[f] : ~rpcCalls[f][i].isPending})
             = Len(returned[f])
       /\ Cardinality({i \in DOMAIN rpcCalls[f] : rpcCalls[f][i].isPending})
             = Len(inflight[f])
       /\ \A i \in DOMAIN returned[f] : returned[f][i].logged
       /\ partial[f].rpcCalls = rpcCalls[f]

\* A forwarded call failed after time passed, next to one that resolved.
C10_Witness ==
    \E f \in F :
       /\ \E i \in DOMAIN returned[f] :
             ~returned[f][i].ok /\ returned[f][i].value = "rpc rejected"
       /\ \E i \in DOMAIN returned[f] : returned[f][i].ok
       /\ \E i \in DOMAIN rpcCalls[f] :
             ~rpcCalls[f][i].isPending /\ rpcCalls[f][i].duration > 0
       /\ <<f, "public", "eth_getTransactionReceipt">> \in wire

\* ------------------------------------------------------------------- C11
SetupMethods == {"eth_getBlockByNumber", "eth_maxPriorityFeePerGas",
                 "eth_getTransactionCount"}

\* C11: no setup call is recorded in a flow's call log: while the gas
\* prefetch or the transaction-count queries run both logs are empty, and
\* no log ever holds a block, priority-fee or transaction-count entry.
C11_SetupNeverLogged ==
    \A f \in F :
       /\ opc \in {"prefetch", "nonce", "rejected"} => rpcCalls[f] = <<>>
       /\ \A i \in DOMAIN rpcCalls[f] : rpcCalls[f][i].method \notin SetupMethods
       /\ Len(rpcCalls[f]) = Len(RequestsOf(returned[f])) + Len(inflight[f])

\* A run went through the gas prefetch and the transaction-count queries,
\* and both flows have logged calls of their own.
C11_Witness ==
    /\ opc = "running"
    /\ {SetupCall(id) : id \in PrefetchIds \cup NonceIds} \subseteq wire
    /\ \A f \in F : rpcCalls[f] # <<>>

\* ------------------------------------------------------------------- C12
FlowsStarted == opc \in {"running", "idle"} /\ \A f \in F : pc[f] # "idle"
NonceQueried == {SetupCall(id) : id \in NonceIds} \subseteq wire

\* C12: whenever chain-identifier prefetch or nonce prefetch is disabled the
\* transaction count of each identity was queried before the flows started.
C12_QueriedUnlessBothPrefetched ==
    FlowsStarted /\ (~opts.chainId \/ ~opts.nonce) => NonceQueried

\* C12 as amended: the transaction counts are queried exactly when nonce
\* prefetch is disabled, whatever the chain-identifier flag; with nonce
\* prefetch enabled the flows start with nonce 0 and no query was made.
C12_QueriedIffNoncePrefetchOff ==
    FlowsStarted
       => /\ ~opts.nonce => NonceQueried
          /\ opts.nonce
                => /\ \A id \in NonceIds : SetupCall(id) \notin wire
                   /\ \A f \in F : nonce[f] = 0
                   /\ \A f \in F : acts[f][1].arg.nonce = 0

\* Nonce prefetch on with chain-identifier prefetch off: the flows run with
\* nonce 0 and no transaction-count query was made.
C12_Witness ==
    /\ FlowsStarted
    /\ opts.nonce /\ ~opts.chainId
    /\ \A id \in NonceIds : SetupCall(id) \notin wire
    /\ \A f \in F : Settled(f)

\* ------------------------------------------------------------------- C13
\* C13: both elapsed-time counters start at the same instant, after all
\* setup and immediately before the flows are invoked: no counter runs and
\* no flow step runs while setup calls are awaited, and no setup call is
\* awaited once the orchestrator is Running.
C13_CountersStartAfterSetup ==
    /\ startT["async"] = startT["sync"]
    /\ \A f \in F : timer[f] => opc \notin {"prefetch", "nonce"}
    /\ \A f \in F : pc[f] # "idle" => startT[f] = fstart[f]
    /\ isPreparing => \A f \in F : pc[f] = "idle"
    /\ isRunning => setup.pending = {} /\ opc \notin {"prefetch", "nonce"}

\* ------------------------------------------------------------------- C14
\* C14: each flow settles on its own: a settled flow has its ticker
\* stopped, its partial result cleared and its final result published, and
\* a flow still in flight has its ticker live, its partial result shown and
\* no result, whatever the other flow is doing.
C14_SettlesIndependently ==
    \A f \in F :
       /\ Settled(f)
             => /\ ~timer[f]
                /\ partial[f] = Null
                /\ result[f] # Null
                /\ elapsed[f] = result[f].duration
       /\ pc[f] \in ClientActions
             => /\ timer[f]
                /\ partial[f] # Null
                /\ result[f] = Null
       /\ result[f] # Null => Settled(f)

\* The polling flow's result is published while the synchronous flow still
\* has a request in flight.
C14_Witness ==
    /\ Settled("async") /\ result["async"] # Null
    /\ pc["sync"] \in ClientActions /\ inflight["sync"] # <<>>
    /\ isRunning

\* The other order: the synchronous flow's result is published first.
C14_WitnessSyncFirst ==
    /\ Settled("sync") /\ result["sync"] # Null
    /\ pc["async"] \in ClientActions /\ inflight["async"] # <<>>
    /\ isRunning

\* ------------------------------------------------------------------- C16
\* C16: every run that was started returns to Idle so that a new run can be
\* started: once no invocation of runBenchmark is in flight, neither phase
\* flag is set and the button is enabled.
C16_EndedRunIsIdle ==
    runsInFlight = 0 => ~isRunning /\ ~isPreparing /\ CanStart

\* ------------------------------------------------------------------- C15
\* The result a rendered card names as winner, given the props it was
\* rendered with.
NamedWinner(card, asyncResult, syncResult) ==
    IF card.winner = "Sync (EIP-7966)" THEN syncResult ELSE asyncResult

\* C15: the card names as winner the result with the lower duration and
\* reports the absolute difference as margin, and the card rendered with the
\* two results the other way round names the same result and the same
\* margin, for all pairs of durations, equal ones included.
C15_ComparisonSymmetric ==
    comparison # Null
       => LET a == result["async"]
              s == result["sync"]
              back == ComparisonCard(s, a)
          IN /\ NamedWinner(comparison, a, s).duration <= a.duration
             /\ NamedWinner(comparison, a, s).duration <= s.duration
             /\ comparison.timeDifference >= 0
             /\ comparison.timeDifference \in {a.duration - s.duration,
                                               s.duration - a.duration}
             /\ back.timeDifference = comparison.timeDifference
             /\ NamedWinner(back, s, a) = NamedWinner(comparison, a, s)

\* The same with ties left out: what the card does satisfy.
C15_SymmetricUnlessTie ==
    comparison # Null /\ result["async"].duration # result["sync"].duration
       => C15_ComparisonSymmetric

\* ------------------------------------------------------------------- C17
\* C17: in every configuration that is not the fast path (a prefetch flag
\* off, or no prefetched gas) the polling flow hands its parameters to
\* sendTransaction and never calls signTransaction or sendRawTransaction.
C17_NormalPathOtherwise ==
    (/\ pc["async"] # "idle"
     /\ ~(opts.nonce /\ opts.gasParams /\ opts.chainId /\ prefetchedGas # Null))
       => /\ acts["async"][1].name = "sendTransaction"
          /\ acts["async"][1].arg = TxParams(opts, nonce["async"], prefetchedGas)
          /\ ActionCount("async", "sendTransaction") = 1
          /\ ActionNames("async") \subseteq
                {"sendTransaction", "waitForTransactionReceipt"}

\* The polling flow succeeded with gas and nonce prefetched and the
\* chain-identifier prefetch off.
C17_Witness ==
    /\ Settled("async")
    /\ result["async"].status = "success"
    /\ opts.nonce /\ opts.gasParams /\ ~opts.chainId
    /\ prefetchedGas # Null

\* ------------------------------------------------------------------- C18
SyncOrder == <<"prepareTransactionRequest", "signTransaction",
               "sendRawTransactionSync">>
ReturnedOk(f, method) ==
    \E i \in DOMAIN returned[f] :
       returned[f][i].method = method /\ returned[f][i].ok

\* C18: in every configuration the synchronous flow invokes preparation,
\* signing and the synchronous send in that order, each after the one before
\* it resolved; nothing is invoked after a failure.
C18_SyncAlwaysPrepares ==
    pc["sync"] # "idle"
       => LET n == Len(acts["sync"])
          IN /\ n \in 1..3
             /\ \A i \in 1..n : acts["sync"][i].name = SyncOrder[i]
             /\ acts["sync"][1].arg = TxParams(opts, nonce["sync"], prefetchedGas)
             /\ n >= 2 => ReturnedOk("sync", "eth_estimateGas")
             /\ n >= 3 => ReturnedOk("sync", "sign")
             /\ \A i \in DOMAIN returned["sync"] :
                   ~returned["sync"][i].ok => i = Len(returned["sync"])
             /\ (Settled("sync") /\ result["sync"].status = "success")
                   => n = 3 /\ ReturnedOk("sync", "eth_sendRawTransactionSync")

\* The synchronous flow succeeded with all three flags on and gas prefetched.
C18_Witness ==
    /\ Settled("sync")
    /\ result["sync"].status = "success"
    /\ opts.nonce /\ opts.gasParams /\ opts.chainId
    /\ prefetchedGas # Null
    /\ Len(acts["sync"]) = 3

\* ------------------------------------------------------------------- C19
\* C19: the polling flow starts the receipt wait only with a transaction
\* hash obtained, and succeeds only with the receipt observed: every call
\* of its log is complete and ended no later than the result's end time.
C19_ReceiptBeforeSuccess ==
    /\ ("waitForTransactionReceipt" \in ActionNames("async")
          \/ Logged("async", "eth_getTransactionReceipt"))
          => /\ hash["async"] \in Hashes
             /\ ReturnedOk("async", "eth_sendRawTransaction")
    /\ \A i, j \in DOMAIN rpcCalls["async"] :
          (/\ rpcCalls["async"][i].method = "eth_getTransactionReceipt"
           /\ rpcCalls["async"][j].method = "eth_sendRawTransaction")
             => /\ j < i
                /\ ~rpcCalls["async"][j].isPending
                /\ rpcCalls["async"][j].endTime <= rpcCalls["async"][i].startTime
    /\ (Settled("async") /\ result["async"].status = "success")
          => /\ result["async"].txHash = hash["async"]
             /\ hash["async"] \in Hashes
             /\ returned["async"][Len(returned["async"])]
                   = [method |-> "eth_getTransactionReceipt", ok |-> TRUE,
                      value |-> "receipt"]
             /\ \A i \in DOMAIN rpcCalls["async"] :
                   /\ ~rpcCalls["async"][i].isPending
                   /\ rpcCalls["async"][i].endTime <= result["async"].endTime

\* The polling flow succeeded after its receipt wait took time.
C19_Witness ==
    /\ Settled("async")
    /\ result["async"].status = "success"
    /\ \E i \in DOMAIN rpcCalls["async"] :
          /\ rpcCalls["async"][i].method = "eth_getTransactionReceipt"
          /\ rpcCalls["async"][i].duration > 0

\* ------------------------------------------------------------------- C20
\* How many elements of sequence s describe a call of method m started at t.
CallsOf(s, m, t) ==
    Cardinality({i \in DOMAIN s : s[i].method = m /\ s[i].startTime = t})
PendingEntries(f) == SelectSeq(rpcCalls[f], LAMBDA c : c.isPending)
CompletedEntries(f) == SelectSeq(rpcCalls[f], LAMBDA c : ~c.isPending)

\* C20: whatever the interleaving of concurrent calls of one interceptor,
\* each completion event follows the start event of its own call and
\* carries that call's method and start timestamp: in the log the completed
\* entries are those of the settled calls and the pending entries those of
\* the calls still in flight, method by method and start time by start
\* time, and no completed entry ends before it starts.
C20_CompletionMatchesStart ==
    \A f \in F :
       /\ Len(rpcCalls[f]) = Requested(f)
       /\ \A m \in ClientMethods : \A t \in 0..now :
             /\ CallsOf(PendingEntries(f), m, t) = CallsOf(inflight[f], m, t)
             /\ CallsOf(CompletedEntries(f), m, t) = CallsOf(returned[f], m, t)
       /\ \A i \in DOMAIN rpcCalls[f] :
             ~rpcCalls[f][i].isPending
                => /\ rpcCalls[f][i].endTime >= rpcCalls[f][i].startTime
                   /\ rpcCalls[f][i].duration
                         = rpcCalls[f][i].endTime - rpcCalls[f][i].startTime

\* Two calls of the same method of one flow, started at different times,
\* and the later one settled first.
C20_Witness ==
    \E f \in F : \E m \in ClientMethods :
       /\ Len(inflight[f]) = 1 /\ Len(returned[f]) = 1
       /\ inflight[f][1].method = m /\ returned[f][1].method = m
       /\ inflight[f][1].startTime < returned[f][1].startTime
       /\ <<f, "public", m>> \in wire

\* ------------------------------------------------------------------- C21
\* C21: in a flow's call log every entry that is not pending has endTime at
\* least startTime, what the completion observer writes is not pending, and
\* a pending entry only ever changes into the completed entry of the same
\* method and start timestamp.
C21_LogEntriesWellFormed ==
    /\ [](\A f \in F : \A i \in DOMAIN rpcCalls[f] :
             ~rpcCalls[f][i].isPending
                => rpcCalls[f][i].endTime >= rpcCalls[f][i].startTime)
    /\ [][\A f \in F : \A i \in DOMAIN rpcCalls[f] :
             /\ i \in DOMAIN rpcCalls'[f]
             /\ rpcCalls'[f][i] # rpcCalls[f][i]
                => (/\ rpcCalls[f][i].isPending
                    /\ ~rpcCalls'[f][i].isPending
                    /\ rpcCalls'[f][i].method = rpcCalls[f][i].method
                    /\ rpcCalls'[f][i].startTime = rpcCalls[f][i].startTime)]_vars

\* A call started after time passed has completed while an earlier call of
\* the same flow is still pending.
C21_Witness ==
    \E f \in F : \E i, j \in DOMAIN rpcCalls[f] :
       /\ i < j
       /\ rpcCalls[f][i].isPending
       /\ ~rpcCalls[f][j].isPending
       /\ rpcCalls[f][j].startTime > 0

\* ------------------------------------------------------------------- C22
\* C22: Running becomes false only with both flows settled and both results
\* published, and the orchestrator is never Idle with a flow in flight.
C22_CompleteAfterBothSettle ==
    /\ [][isRunning /\ ~isRunning'
             => \A f \in F : Settled(f) /\ result[f] # Null /\ inflight[f] = <<>>]_vars
    /\ [](~isRunning /\ ~isPreparing
             => \A f \in F : /\ pc[f] \in {"idle", "settled"}
                             /\ inflight[f] = <<>>
                             /\ pc[f] = "settled" => result[f] # Null)

\* The run was marked complete with one flow failed and the other succeeded
\* later.
C22_Witness ==
    /\ opc = "idle" /\ ~isRunning /\ runsInFlight = 0
    /\ result["sync"] # Null /\ result["async"] # Null
    /\ result["sync"].status = "error"
    /\ result["async"].status = "success"
    /\ result["sync"].endTime < result["async"].endTime

\* ------------------------------------------------------------------- C23
\* C23: a flow's ticker is stopped once, in the step in which the flow
\* settles; a settled flow's ticker is not live and its elapsed time no
\* longer moves, and a completed run has no live ticker.
C23_TickerStoppedOnce ==
    /\ [](\A f \in F : /\ Settled(f) => ~timer[f]
                       /\ opc \in {"idle", "rejected"} => ~timer[f])
    /\ [][\A f \in F :
             /\ timer[f] /\ ~timer'[f] => ~Settled(f) /\ Settled(f)'
             /\ Settled(f) /\ Settled(f)' => elapsed'[f] = elapsed[f]]_vars

\* A flow settled, its ticker is stopped and time passed since, while the
\* other flow's ticker is still live.
C23_Witness ==
    \E f \in F :
       /\ Settled(f) /\ ~timer[f]
       /\ now > result[f].endTime
       /\ timer[Other(f)]
       /\ elapsed[Other(f)] > elapsed[f]

\* ------------------------------------------------------------------- C24
\* C24: a flow's call log and partial result change only in steps of that
\* flow's own interceptor (a request of its own sent or settled), or when a
\* new run replaces the logs; the two flows use different identities.
C24_LogsNotShared ==
    /\ [](Account("async") # Account("sync"))
    /\ [][\A f \in F :
             (inflight'[f] = inflight[f] /\ returned'[f] = returned[f])
                => /\ rpcCalls'[f] = rpcCalls[f]
                   /\ (partial[f] # Null /\ partial'[f] # Null)
                         => partial'[f].rpcCalls = partial[f].rpcCalls]_vars

\* Both flows have a request in flight at once, each with entries in its
\* own log.
C24_Witness ==
    /\ \A f \in F : inflight[f] # <<>> /\ Len(rpcCalls[f]) >= 2
    /\ LogMethods("async") # LogMethods("sync")

\* ------------------------------------------------------------------- C25
GasFields == {"maxFeePerGas", "maxPriorityFeePerGas", "gas"}

\* C25: the parameters each flow hands to its first client action hold the
\* nonce iff nonce prefetch is on, and then the nonce the orchestrator
\* supplied; they hold the fee cap, priority fee and gas limit iff gas
\* prefetch is on and prefetched gas is present, and then the prefetched
\* values; on the fast path the signer gets exactly these plus sender and
\* chain id.
C25_ParamsAssembledAlike ==
    \A f \in F :
       pc[f] # "idle"
          => LET a == acts[f][1].arg
                 withGas == opts.gasParams /\ prefetchedGas # Null
             IN /\ {"to", "value", "paymaster"} \subseteq DOMAIN a
                /\ "nonce" \in DOMAIN a <=> opts.nonce
                /\ opts.nonce => a.nonce = nonce[f]
                /\ \A g \in GasFields : g \in DOMAIN a <=> withGas
                /\ withGas => \A g \in GasFields : a[g] = prefetchedGas[g]
                /\ acts[f][1].name = "signTransaction"
                      => /\ DOMAIN a = {"to", "value", "paymaster", "nonce",
                                        "from", "chainId"} \cup GasFields
                         /\ a.from = Account(f)
                         /\ a.chainId = ChainId

\* Flows started with gas prefetched (fee cap above the priority fee) and
\* nonce prefetch off.
C25_Witness ==
    /\ \A f \in F : pc[f] # "idle"
    /\ ~opts.nonce /\ opts.gasParams
    /\ prefetchedGas # Null
    /\ prefetchedGas.maxFeePerGas > prefetchedGas.maxPriorityFeePerGas

\* ------------------------------------------------------------------- C26
\* C26: the prefetched fee cap is the block's base fee plus the priority fee
\* when the block has a base fee, the priority fee alone otherwise, and so
\* never below the prefetched priority fee.
C26_FeeCapCoversPriorityFee ==
    prefetchedGas # Null
       => LET b == setup.got["block"]
              p == setup.got["fee"]
          IN /\ prefetchedGas.maxFeePerGas = (IF b # NoBaseFee THEN b + p ELSE p)
             /\ prefetchedGas.maxPriorityFeePerGas = p
             /\ prefetchedGas.maxFeePerGas >= prefetchedGas.maxPriorityFeePerGas
             /\ prefetchedGas.gas = setup.got["gas"]

\* The block had a base fee of 0 and the fee cap is the priority fee.
C26_Witness ==
    /\ prefetchedGas # Null
    /\ opc = "gas"
    /\ setup.got["block"] = 0
    /\ setup.got["fee"] > 0
    /\ prefetchedGas.maxFeePerGas = setup.got["fee"]

\* ------------------------------------------------------------------- C27
\* A new invocation of runBenchmark begins in this step.
RunStarts == runsInFlight' > runsInFlight

C28_PhaseOrder ==
    /\ [](~(isPreparing /\ isRunning))
    /\ [][/\ ~isPreparing /\ isPreparing' => ~isRunning
          /\ ~isRunning /\ isRunning' => isPreparing
          /\ isPreparing /\ ~isPreparing' => isRunning'
          /\ isRunning /\ ~isRunning' => ~isPreparing']_vars

\* ------------------------------------------------------------------- C29
\* The partial result of flow f after a start event, and after a completion
\* event, of a request for `method` through `client` arriving now.
PartialAfterStartEvent(f, client, method) ==
    PartialAfter(partial[f],
                 ObserveStart(rpcCalls, f, client, StartEvent(method)),
                 f, client, "start")

PartialAfterCompleteEvent(f, client, method, startTime) ==
    PartialAfter(partial[f],
                 ObserveComplete(rpcCalls, f, client,
                                 CompleteEvent(method, startTime)),
                 f, client, "complete")

\* C29: a flow never has both a partial and a final result; it has a partial
\* result only while the run is Running and the flow has not settled; and a
\* start or completion event arriving while its partial result is absent
\* leaves it absent.
C29_PartialXorResult ==
    \A f \in F :
       /\ ~(partial[f] # Null /\ result[f] # Null)
       /\ partial[f] # Null => isRunning /\ pc[f] \in ClientActions
       /\ partial[f] = Null
             => \A client \in Clients : \A m \in Methods :
                   /\ PartialAfterStartEvent(f, client, m) = Null
                   /\ \A t \in 0..now :
                         PartialAfterCompleteEvent(f, client, m, t) = Null

\* The async flow has settled: its partial result is cleared and its result
\* present, while the sync flow still has its partial result and a request
\* in flight.
C29_Witness ==
    /\ partial["async"] = Null
    /\ result["async"] # Null
    /\ rpcCalls["async"] # <<>>
    /\ partial["sync"] # Null
    /\ inflight["sync"] # <<>>

\* ------------------------------------------------------------------- C30
\* C30: every call has exactly one entry in its flow's call log, pending
\* while the call is in flight and completed afterwards; an entry is never
\* removed and keeps its position, method and start timestamp; so with no
\* call in flight the log has one completed entry per call started, also
\* for calls of one method started at one timestamp.
C30_OneEntryPerCall ==
    /\ [](\A f \in F :
            /\ Len(rpcCalls[f]) = Requested(f)
            /\ Len(PendingEntries(f)) = Len(inflight[f])
            /\ inflight[f] = <<>>
                  => /\ Len(rpcCalls[f]) = Len(returned[f])
                     /\ PendingEntries(f) = <<>>)
    /\ [][\A f \in F :
            /\ Len(rpcCalls'[f]) = Len(rpcCalls[f]) + Requested(f)' - Requested(f)
            /\ \A i \in DOMAIN rpcCalls[f] :
                  /\ rpcCalls'[f][i].method = rpcCalls[f][i].method
                  /\ rpcCalls'[f][i].startTime = rpcCalls[f][i].startTime]_vars

\* Two forwarded calls of one method started at one timestamp, one of them
\* completed and the other still pending after it in the log.
C30_Witness ==
    \E f \in F :
       /\ Len(rpcCalls[f]) = 2
       /\ Len(inflight[f]) = 1
       /\ rpcCalls[f][1].method = rpcCalls[f][2].method
       /\ rpcCalls[f][1].startTime = rpcCalls[f][2].startTime
       /\ ~rpcCalls[f][1].isPending
       /\ rpcCalls[f][2].isPending
       /\ rpcCalls[f][1].endTime > rpcCalls[f][1].startTime

====
